---- MODULE Spec2Model ----
(***************************************************************************)
(* Model of scripts/aidata_cli.py: the AIDataProcessor operations on one   *)
(* .aidata file.                                                           *)
(*                                                                         *)
(* Text is a sequence of symbols.  A symbol is a string that stands for    *)
(* one character ("#", " ", "\n", "-", "*", ":", ...) or for one atomic    *)
(* word: a fixed run of characters in which none of the single-character   *)
(* symbols used by the code's markers begins or ends ("FILE METADATA",     *)
(* "Integrity Hash", a timestamp).  Python's str operations are modelled   *)
(* on these sequences: split, join, startswith, "in", strip, re.search     *)
(* and re.split.                                                           *)
(***************************************************************************)
EXTENDS Integers, Sequences, FiniteSets, TLC

VARIABLES
    file,     \* the bytes stored at self.file_path
    access,   \* what the file system allows on that path: "rw", "r" or "none"
    jsonFile, \* the sibling .json file to_json writes: the mapping it holds
    log       \* one record per finished invocation, oldest first

vars == <<file, access, jsonFile, log>>

----------------------------------------------------------------------------
(* Bounds of the model.                                                    *)

\* invocations per behaviour
MaxRuns == 2
\* lines of a generated document of the generate-hash family
MaxHashDocLines == 3
\* integrity-hash lines a manual edit may leave in a document
MaxHashLines == 2
\* learning entries of a generated document of the deduplicate family
MaxEntries == 2
\* lines of a generated document of the add-checkpoint family
MaxCheckpointDocLines == 4
\* lines of a generated document of the to-json family
MaxJsonDocLines == 4
\* mandatory names that may also occur as "### NAME" or inside body text
NumVariantNames == 3

----------------------------------------------------------------------------
(* Python str and list operations on symbol sequences.                     *)

NL == "\n"
CR == "\r"

Whitespace == {" ", "\n", "\r", "\t"}

\* s.startswith(p)
StartsWith(s, p) ==
    /\ Len(s) >= Len(p)
    /\ SubSeq(s, 1, Len(p)) = p

\* p occurs in s at index i
OccursAt(s, p, i) ==
    /\ i >= 1
    /\ i + Len(p) - 1 <= Len(s)
    /\ SubSeq(s, i, i + Len(p) - 1) = p

\* p in s
Contains(s, p) == \E i \in 1..(Len(s) - Len(p) + 1) : OccursAt(s, p, i)

\* the least element of a non-empty set of integers
Least(S) == CHOOSE i \in S : \A j \in S : i <= j

\* index of the leftmost occurrence of p in s at or after from; 0 when none
Find(s, p, from) ==
    LET at == { i \in from..(Len(s) - Len(p) + 1) : OccursAt(s, p, i) }
    IN  IF at = {} THEN 0 ELSE Least(at)

\* s.split(sep) for a one-symbol separator: always at least one piece
Split(s, sep) ==
    LET at == { i \in 1..Len(s) : s[i] = sep }
        \* the k-th separator; 0 before the first, Len(s) + 1 after the last
        Nth(k) == IF k = 0 THEN 0
                  ELSE IF k > Cardinality(at) THEN Len(s) + 1
                  ELSE CHOOSE i \in at : Cardinality({ j \in at : j < i }) = k - 1
    IN  [k \in 1..(Cardinality(at) + 1) |-> SubSeq(s, Nth(k - 1) + 1, Nth(k) - 1)]

\* sep.join(parts), sep a text
RECURSIVE Join(_, _)
Join(parts, sep) ==
    IF Len(parts) = 0 THEN <<>>
    ELSE IF Len(parts) = 1 THEN parts[1]
    ELSE parts[1] \o sep \o Join(Tail(parts), sep)

\* ''.join(parts)
Concat(parts) == Join(parts, <<>>)

\* s.lstrip(), s.rstrip(), s.strip()
RECURSIVE LStrip(_)
LStrip(s) ==
    IF Len(s) > 0 /\ s[1] \in Whitespace THEN LStrip(Tail(s)) ELSE s

RECURSIVE RStrip(_)
RStrip(s) ==
    IF Len(s) > 0 /\ s[Len(s)] \in Whitespace
    THEN RStrip(SubSeq(s, 1, Len(s) - 1))
    ELSE s

Strip(s) == RStrip(LStrip(s))

\* list.insert(i, x) with a 0-based index i <= len(list)
InsertAt(lines, i, x) ==
    SubSeq(lines, 1, i) \o <<x>> \o SubSeq(lines, i + 1, Len(lines))

----------------------------------------------------------------------------
(* File access.                                                            *)

\* open(path, 'r').read(): text mode translates "\r\n" and "\r" to "\n"
UniversalNewlines(b) ==
    LET keep == SelectSeq([i \in 1..Len(b) |->
                              IF b[i] = CR /\ i < Len(b) /\ b[i + 1] = NL
                              THEN "" ELSE IF b[i] = CR THEN NL ELSE b[i]],
                          LAMBDA c : c # "")
    IN  keep

\* _read_file: the content, or None (modelled as the falsy empty text with
\* readable FALSE) when open() raises
ReadFile == [readable |-> access # "none",
             content  |-> IF access # "none" THEN UniversalNewlines(file) ELSE <<>>]

\* "if not self.content": None and "" are both falsy
NoContent(r) == ~r.readable \/ r.content = <<>>

\* a lone surrogate code point: what a byte of the command line that is not
\* UTF-8 is decoded to, and what the utf-8 codec refuses to encode
Surrogate == "\\udc80"

\* content.encode('utf-8') does not raise
Encodable(content) == \A k \in 1..Len(content) : content[k] # Surrogate

\* _write_file: open(path, 'w') does not raise
WriteOk == access = "rw"

\* _write_file: the bytes at the path afterwards.  open(path, 'w') raises and
\* the file is as it was; or it truncates the file and f.write(content)
\* raises, which leaves the file empty; or the content is written
Written(content) ==
    IF ~WriteOk THEN file
    ELSE IF ~Encodable(content) THEN <<>>
    ELSE content

\* one finished invocation: the command, its arguments and console input, the
\* (success, message) it returned, and the file before and after it
Entry(name, args, okv, msg, after) ==
    [op |-> name, args |-> args, ok |-> okv, message |-> msg,
     before |-> file, after |-> after]

Record(name, args, okv, msg, after) ==
    /\ log' = Append(log, Entry(name, args, okv, msg, after))
    /\ file' = after

\* the invocations finished so far (manual edits of the file are logged too)
Invocations == Len(SelectSeq(log, LAMBDA e : e.op # "edit"))

MsgNoContent == <<"Could not read file content.">>
MsgWriteFailed == <<"Failed to write updated content to file.">>

----------------------------------------------------------------------------
(* validate_syntax                                                         *)

mandatory_sections ==
    << "FILE METADATA", "DOMAIN CONTEXT", "KNOWLEDGE REPRESENTATION",
       "VALIDATION FRAMEWORK", "APPLICATION CONTEXT", "EVOLUTION TRACKING",
       "AUTOMATED LEARNINGS" >>

\* f"## {section}"
SectionMarker(name) == <<"#", "#", " ", name>>

\* f"## {section}" in self.content
SectionPresent(content, name) == Contains(content, SectionMarker(name))

\* the loop that accumulates missing_sections, in the order of the list
RECURSIVE MissingFrom(_, _)
MissingFrom(content, i) ==
    IF i > Len(mandatory_sections) THEN <<>>
    ELSE (IF SectionPresent(content, mandatory_sections[i])
          THEN <<>> ELSE <<mandatory_sections[i]>>)
         \o MissingFrom(content, i + 1)

missing_sections(content) == MissingFrom(content, 1)

\* ', '.join(names)
CommaJoin(names) == Join([k \in 1..Len(names) |-> <<names[k]>>], <<", ">>)

HeaderPrefix == <<"#", " ", "AI LEARNING FILE", ":">>


CreatedMarker == <<"#", "#", " ", "CREATED">>

\* texts of the shape \d{4}-\d{2}-\d{2} \d{2}:\d{2}:\d{2}, each one symbol
TimestampShaped == {"2024-01-01 10:00:00", "2024-01-02 10:00:00", "2024-13-45 99:00:00"}

\* datetime.strptime(ts, "%Y-%m-%d %H:%M:%S") does not raise ValueError
ValidDateTime(ts) == ts \in {"2024-01-01 10:00:00", "2024-01-02 10:00:00"}

\* re.search(r"## CREATED\n(\d{4}-\d{2}-\d{2} \d{2}:\d{2}:\d{2})"): group 1 of
\* the leftmost match, <<>> when there is none
CreatedSearch(content) ==
    LET at == { i \in 1..(Len(content) - Len(CreatedMarker) - 1) :
                  /\ OccursAt(content, CreatedMarker \o <<NL>>, i)
                  /\ content[i + Len(CreatedMarker) + 1] \in TimestampShaped }
    IN  IF at = {} THEN <<>> ELSE <<content[Least(at) + Len(CreatedMarker) + 1]>>

created_match(content) == CreatedSearch(content)

\* the character class [\\s\\S] of the raw pattern: a backslash, "s" or "S"
MetaClass == {"\\", "s", "S"}

\* the lookahead (?=\\n## |\\Z) of the raw pattern: a backslash followed by
\* "n## ", or a backslash followed by "Z"
MetaLookahead(content, i) ==
    \/ OccursAt(content, <<"\\", "n", "#", "#", " ">>, i)
    \/ OccursAt(content, <<"\\", "Z">>, i)

\* the lazy group ([\\s\\S]*?) from index i: the end of the shortest run of
\* class symbols after which the lookahead matches; 0 when there is none
RECURSIVE MetaLazyEnd(_, _)
MetaLazyEnd(content, i) ==
    IF MetaLookahead(content, i) THEN i
    ELSE IF i <= Len(content) /\ content[i] \in MetaClass
         THEN MetaLazyEnd(content, i + 1)
    ELSE 0

\* re.search(r"## FILE METADATA\n([\\s\\S]*?)(?=\\n## |\\Z)"): matched and
\* group 1 of the leftmost match
MetadataSearch(content) ==
    LET head == SectionMarker("FILE METADATA") \o <<NL>>
        at   == { i \in 1..Len(content) :
                    /\ OccursAt(content, head, i)
                    /\ MetaLazyEnd(content, i + Len(head)) # 0 }
        b    == Least(at) + Len(head)
    IN  IF at = {} THEN [matched |-> FALSE, group |-> <<>>]
        ELSE [matched |-> TRUE,
              group |-> SubSeq(content, b, MetaLazyEnd(content, b) - 1)]

metadata_match(content) == MetadataSearch(content)

required_metadata_fields == <<"Schema Version", "Confidence Level", "Classification">>

\* f"- **{field}**:"
FieldLabel(field) == <<"-", " ", "*", "*", field, "*", "*", ":">>

missing_fields(metadata_content) ==
    SelectSeq(required_metadata_fields,
              LAMBDA f : ~Contains(metadata_content, FieldLabel(f)))

\* validate_syntax with a fault: the header is checked before the sections
validate_syntax_header_first(r) ==
    IF NoContent(r) THEN [ok |-> FALSE, message |-> MsgNoContent]
    ELSE IF ~StartsWith(r.content, HeaderPrefix)
    THEN [ok |-> FALSE, message |-> <<"File must start with '# AI LEARNING FILE:'">>]
    ELSE IF missing_sections(r.content) # <<>>
    THEN [ok |-> FALSE,
          message |-> <<"Missing mandatory sections: ">>
                      \o CommaJoin(missing_sections(r.content))]
    ELSE IF ~Contains(r.content, CreatedMarker)
    THEN [ok |-> FALSE, message |-> <<"Missing 'CREATED' section">>]
    ELSE IF created_match(r.content) # <<>> /\ ~ValidDateTime(created_match(r.content)[1])
    THEN [ok |-> FALSE, message |-> <<"Invalid timestamp format in CREATED section">>]
    ELSE IF /\ metadata_match(r.content).matched
            /\ missing_fields(metadata_match(r.content).group) # <<>>
    THEN [ok |-> FALSE,
          message |-> <<"Missing required metadata fields: ">>
                      \o CommaJoin(missing_fields(metadata_match(r.content).group))]
    ELSE [ok |-> TRUE, message |-> <<"Syntax validation passed.">>]

\* validate_syntax: (success, message)
validate_syntax(r) ==
    IF NoContent(r) THEN [ok |-> FALSE, message |-> MsgNoContent]
    ELSE IF missing_sections(r.content) # <<>>
    THEN [ok |-> FALSE,
          message |-> <<"Missing mandatory sections: ">>
                      \o CommaJoin(missing_sections(r.content))]
    ELSE IF ~StartsWith(r.content, HeaderPrefix)
    THEN [ok |-> FALSE, message |-> <<"File must start with '# AI LEARNING FILE:'">>]
    ELSE IF ~Contains(r.content, CreatedMarker)
    THEN [ok |-> FALSE, message |-> <<"Missing 'CREATED' section">>]
    ELSE IF created_match(r.content) # <<>> /\ ~ValidDateTime(created_match(r.content)[1])
    THEN [ok |-> FALSE, message |-> <<"Invalid timestamp format in CREATED section">>]
    ELSE IF /\ metadata_match(r.content).matched
            /\ missing_fields(metadata_match(r.content).group) # <<>>
    THEN [ok |-> FALSE,
          message |-> <<"Missing required metadata fields: ">>
                      \o CommaJoin(missing_fields(metadata_match(r.content).group))]
    ELSE [ok |-> TRUE, message |-> <<"Syntax validation passed.">>]

\* the validate command: reads, checks, writes nothing
Validate ==
    /\ Invocations < MaxRuns
    /\ LET res == validate_syntax(ReadFile)
       IN  Record("validate", <<>>, res.ok, res.message, file)
    /\ UNCHANGED <<access, jsonFile>>

----------------------------------------------------------------------------
(* generate_hash                                                           *)

HexDigits == <<"0", "1", "2", "3", "4", "5", "6", "7",
               "8", "9", "a", "b", "c", "d", "e", "f">>

\* every symbol a modelled text is made of, in a fixed order
Alphabet ==
    << "\n", "\r", "\t", " ", "#", "-", "*", ":", "|", "\\", "s", "S", "Z", "n",
       "0", "1", "2", "3", "4", "5", "6", "7", "8", "9", "a", "b", "c", "d", "e", "f",
       "FILE METADATA", "DOMAIN CONTEXT", "KNOWLEDGE REPRESENTATION",
       "VALIDATION FRAMEWORK", "APPLICATION CONTEXT", "EVOLUTION TRACKING",
       "AUTOMATED LEARNINGS", "AI LEARNING FILE", "title", "see", "CREATED",
       "Schema Version", "Confidence Level", "Classification", "Integrity Hash",
       "SHA256", "Learning Entry", "Checkpoint History", "NOTES", "text",
       "x", "y", "z", "p", "q", "Key", "Value", "name", "old",
       "2024-01-01 10:00:00", "2024-01-02 10:00:00", "2024-13-45 99:00:00",
       "2024-01-01T10:00:00Z", "2024-01-02T10:00:00Z", "desc" >>

SymbolCode(sym) == CHOOSE c \in 1..Len(Alphabet) : Alphabet[c] = sym

\* hashlib.sha256(text.encode('utf-8')).hexdigest(): SHA-256 is taken to be
\* collision free, and is modelled as an injective map from texts to texts
\* of hex digits (two digits per symbol, in reverse order of the text)
sha256_hexdigest(text) ==
    [k \in 1..(2 * Len(text)) |->
        LET c == SymbolCode(text[Len(text) - ((k - 1) \div 2)])
        IN  IF k % 2 = 1 THEN HexDigits[(c \div 16) + 1] ELSE HexDigits[(c % 16) + 1]]

\* "- **Integrity Hash**: SHA256-"
HashPrefix == <<"-", " ", "*", "*", "Integrity Hash", "*", "*", ":", " ", "SHA256", "-">>

IsHashLine(line) == StartsWith(line, HashPrefix)

\* filtered_lines with a fault: the hash line is not excluded from the hash
filtered_lines_keep_hash(lines) == lines

\* the lines that do not start with the hash prefix
filtered_lines(lines) == SelectSeq(lines, LAMBDA l : ~IsHashLine(l))

\* the index (0-based) of the last line that starts with the hash prefix, -1
\* when there is none
hash_line_index(lines) ==
    IF \E k \in 1..Len(lines) : IsHashLine(lines[k])
    THEN (CHOOSE k \in 1..Len(lines) :
            /\ IsHashLine(lines[k])
            /\ \A m \in (k + 1)..Len(lines) : ~IsHashLine(lines[m])) - 1
    ELSE -1

\* the hash over the text without its hash lines
content_hash(lines) == sha256_hexdigest(Join(filtered_lines(lines), <<NL>>))

\* ReplaceHashLine with a fault: the new line is inserted before the old one
ReplaceHashLineInserting(lines, idx, digest) == InsertAt(lines, idx, HashPrefix \o digest)

\* lines[hash_line_index] = f"- **Integrity Hash**: SHA256-{sha256_hash}"
ReplaceHashLine(lines, idx, digest) == [lines EXCEPT ![idx + 1] = HashPrefix \o digest]

\* the end of the section whose marker is at 0-based index i: the index of the
\* next line that starts with "## ", len(lines) when there is none
RECURSIVE SectionEnd(_, _)
SectionEnd(lines, j) ==
    IF j < Len(lines) /\ ~StartsWith(lines[j + 1], <<"#", "#", " ">>)
    THEN SectionEnd(lines, j + 1)
    ELSE j

\* no hash line yet: insert one before the end of the first section whose
\* marker line is exactly "## FILE METADATA"; nothing is inserted when no line
\* is that marker
InsertHashLine(lines, digest) ==
    IF \E k \in 1..Len(lines) : lines[k] = SectionMarker("FILE METADATA")
    THEN LET i == (CHOOSE k \in 1..Len(lines) :
                     /\ lines[k] = SectionMarker("FILE METADATA")
                     /\ \A m \in 1..(k - 1) : lines[m] # SectionMarker("FILE METADATA")) - 1
         IN  InsertAt(lines, SectionEnd(lines, i + 1), HashPrefix \o digest)
    ELSE lines

\* the text generate_hash writes
updated_content(content) ==
    LET lines  == Split(content, NL)
        idx    == hash_line_index(lines)
        digest == content_hash(lines)
    IN  Join(IF idx # -1 THEN ReplaceHashLine(lines, idx, digest)
             ELSE InsertHashLine(lines, digest), <<NL>>)

MsgHashUpdated(digest) == <<"Integrity hash updated: ", "SHA256", "-">> \o digest

\* the generate-hash command
GenerateHash ==
    /\ Invocations < MaxRuns
    /\ LET r == ReadFile
       IN  IF NoContent(r) THEN Record("generate-hash", <<>>, FALSE, MsgNoContent, file)
           ELSE IF WriteOk /\ Encodable(updated_content(r.content))
           THEN Record("generate-hash", <<>>, TRUE,
                       MsgHashUpdated(content_hash(Split(r.content, NL))),
                       Written(updated_content(r.content)))
           ELSE Record("generate-hash", <<>>, FALSE, MsgWriteFailed,
                       Written(updated_content(r.content)))
    /\ UNCHANGED <<access, jsonFile>>

----------------------------------------------------------------------------
(* Documents.                                                              *)

Access == {"rw", "r", "none"}

\* lines.join("\n")
Doc(lines) == Join(lines, <<NL>>)

HeaderLine == HeaderPrefix \o <<" ", "title">>

\* how a mandatory name occurs in a generated document
FormLine(form, name) ==
    CASE form = "marker"  -> <<SectionMarker(name)>>
      [] form = "deeper"  -> <<<<"#">> \o SectionMarker(name)>>
      [] form = "mention" -> <<<<"see", " ">> \o SectionMarker(name)>>
      [] OTHER            -> <<>>

Forms(i) == IF i <= NumVariantNames
            THEN {"absent", "marker", "deeper", "mention"}
            ELSE {"absent", "marker"}

FormChoices == { f \in [1..Len(mandatory_sections) -> {"absent", "marker", "deeper", "mention"}] :
                   \A i \in 1..Len(mandatory_sections) : f[i] \in Forms(i) }

RECURSIVE FormLines(_, _)
FormLines(f, i) ==
    IF i > Len(mandatory_sections) THEN <<>>
    ELSE FormLine(f[i], mandatory_sections[i]) \o FormLines(f, i + 1)

ValidateDocs ==
    { Doc(<<HeaderLine>> \o FormLines(f, 1)) : f \in FormChoices } \cup {<<>>}

\* no .json file yet
NoJson == [exists |-> FALSE, file_title |-> <<>>, metadata |-> <<>>, sections |-> <<>>]

InitWith(docs) ==
    /\ file \in docs
    /\ access \in Access
    /\ jsonFile = NoJson
    /\ log = <<>>

\* the last finished invocation
Last == log[Len(log)]
Ran(name) == Len(log) > 0 /\ Last.op = name

InitValidate == InitWith(ValidateDocs)
NextValidate == Validate
SpecValidate == InitValidate /\ [][NextValidate]_vars

----------------------------------------------------------------------------
(* Properties of validate.                                                  *)

\* the content an invocation read from the bytes b
ContentOf(b) == UniversalNewlines(b)

\* the mandatory names with no line "## NAME" in the content, in the fixed order
NoMarkerLine(content) ==
    SelectSeq(mandatory_sections,
              LAMBDA n : \A k \in 1..Len(Split(content, NL)) :
                             Split(content, NL)[k] # SectionMarker(n))

\* C1: when exactly the names of a non-empty set S have no top-level marker
\* line "## NAME" in a document with content, validate fails and its message
\* lists exactly S in the mandatory order; a name found only in "### NAME"
\* or in body text counts as missing.
C1_ReportsExactlyMissing ==
    (/\ Ran("validate")
     /\ access # "none"
     /\ ContentOf(Last.before) # <<>>
     /\ NoMarkerLine(ContentOf(Last.before)) # <<>>)
    => /\ ~Last.ok
       /\ Last.message = <<"Missing mandatory sections: ">>
                         \o CommaJoin(NoMarkerLine(ContentOf(Last.before)))

----------------------------------------------------------------------------
(* generate-hash: documents, the editor, the specification.                *)

\* all sequences over V of length at most n
SeqsUpTo(V, n) == UNION { [1..k -> V] : k \in 0..n }

OldHashLine == HashPrefix \o <<"old">>
MetaLine == FieldLabel("Schema Version") \o <<" ", "1">>

HashDocLines ==
    { SectionMarker("FILE METADATA"), SectionMarker("DOMAIN CONTEXT"),
      MetaLine, OldHashLine, <<>> }

\* line terminators a file on disk may use
LineEnds == { <<NL>>, <<CR, NL>> }

HashDocs == { Join(ls, e) : ls \in SeqsUpTo(HashDocLines, MaxHashDocLines), e \in LineEnds }

NumHashLines(lines) == Len(SelectSeq(lines, IsHashLine))

\* what a person editing only the integrity-hash lines can turn the lines into
HashLineEdits(lines) ==
    { [lines EXCEPT ![k] = HashPrefix \o t] :
          k \in { m \in 1..Len(lines) : IsHashLine(lines[m]) },
          t \in { <<"old">>, <<"0", "0">>, <<>> } }
    \cup { SubSeq(lines, 1, k - 1) \o SubSeq(lines, k + 1, Len(lines)) :
          k \in { m \in 1..Len(lines) : IsHashLine(lines[m]) /\ Len(lines) > 1 } }
    \cup { InsertAt(lines, q, OldHashLine) :
          q \in { m \in 0..Len(lines) : NumHashLines(lines) < MaxHashLines } }

\* the file is edited by hand between two invocations: only integrity-hash
\* lines are changed, added or removed
EditHashLines ==
    /\ Invocations < MaxRuns
    /\ access = "rw"
    /\ IF Len(log) = 0 THEN FALSE ELSE Last.op # "edit"
    /\ \E new \in HashLineEdits(Split(UniversalNewlines(file), NL)) :
          /\ Join(new, <<NL>>) # file
          /\ Record("edit", <<>>, TRUE, <<>>, Join(new, <<NL>>))
    /\ UNCHANGED <<access, jsonFile>>

InitHash == InitWith(HashDocs)
NextHash == GenerateHash \/ EditHashLines
SpecHash == InitHash /\ [][NextHash]_vars

----------------------------------------------------------------------------
(* Properties of generate-hash.                                             *)

LinesOf(b) == Split(ContentOf(b), NL)

\* C2: generate-hash run twice in a row on a readable document reports the
\* same result and hash both times, and the second run leaves the file
\* byte-identical to what the first run left.
C2_GenerateHashIdempotent ==
    \A i \in 1..(Len(log) - 1) :
        (/\ access # "none"
         /\ log[i].op = "generate-hash"
         /\ log[i + 1].op = "generate-hash")
        => /\ log[i + 1].ok = log[i].ok
           /\ log[i + 1].message = log[i].message
           /\ log[i + 1].after = log[i].after

\* a first run changed the file and a second run followed it
C2_Witness ==
    \E i \in 1..(Len(log) - 1) :
        /\ log[i].op = "generate-hash" /\ log[i].ok
        /\ log[i + 1].op = "generate-hash" /\ log[i + 1].ok
        /\ log[i].after # log[i].before
        /\ log[i + 1].after = log[i].after

\* a text with every integrity-hash line taken out
WithoutHashLines(content) ==
    SelectSeq(Split(content, NL), LAMBDA l : ~StartsWith(l, HashPrefix))

\* C3: two successful generate-hash runs on documents that are the same but
\* for their integrity-hash lines (their text after the prefix, or their
\* presence) report the same hash.
C3_HashIgnoresHashLines ==
    \A i, j \in 1..Len(log) :
        (/\ log[i].op = "generate-hash" /\ log[i].ok
         /\ log[j].op = "generate-hash" /\ log[j].ok
         /\ WithoutHashLines(ContentOf(log[i].before))
              = WithoutHashLines(ContentOf(log[j].before)))
        => log[i].message = log[j].message

\* two successful runs on documents with different hash lines and the same rest
C3_Witness ==
    \E i, j \in 1..Len(log) :
        /\ log[i].op = "generate-hash" /\ log[i].ok
        /\ log[j].op = "generate-hash" /\ log[j].ok
        /\ ContentOf(log[i].before) # ContentOf(log[j].before)
        /\ \E k \in 1..Len(LinesOf(log[j].before)) :
              /\ IsHashLine(LinesOf(log[j].before)[k])
              /\ LinesOf(log[j].before)[k] # HashPrefix \o SubSeq(log[j].message, 4, Len(log[j].message))
        /\ WithoutHashLines(ContentOf(log[i].before))
             = WithoutHashLines(ContentOf(log[j].before))
        /\ log[i].message = log[j].message

\* the lines with the one at index k taken out
DropLine(lines, k) == SubSeq(lines, 1, k - 1) \o SubSeq(lines, k + 1, Len(lines))

\* C4: after a successful generate-hash every line of the written file that
\* starts with the hash prefix carries the SHA-256 of the written text with
\* that line removed.
C4_EveryHashLineIsIntegrityHash ==
    (Ran("generate-hash") /\ Last.ok)
    => \A k \in 1..Len(Split(Last.after, NL)) :
          IsHashLine(Split(Last.after, NL)[k])
          => Split(Last.after, NL)[k]
               = HashPrefix \o sha256_hexdigest(Join(DropLine(Split(Last.after, NL), k), <<NL>>))

\* C5: a successful generate-hash on a document with no integrity-hash line
\* writes the document with exactly one hash line added, as the last line of
\* the FILE METADATA section body (before the next line starting with "## ",
\* or at the end of the file), every other line unchanged and in order.
C5_InsertsAtEndOfFileMetadata ==
    (/\ Ran("generate-hash") /\ Last.ok
     /\ \A k \in 1..Len(LinesOf(Last.before)) : ~IsHashLine(LinesOf(Last.before)[k]))
    => LET old == LinesOf(Last.before)
           new == Split(Last.after, NL)
       IN  \E i \in 1..Len(old), j \in 1..Len(old) :
             /\ old[i] = SectionMarker("FILE METADATA")
             /\ i <= j
             /\ \A m \in (i + 1)..j : ~StartsWith(old[m], <<"#", "#", " ">>)
             /\ j = Len(old) \/ StartsWith(old[j + 1], <<"#", "#", " ">>)
             /\ Len(new) = Len(old) + 1
             /\ IsHashLine(new[j + 1])
             /\ DropLine(new, j + 1) = old

----------------------------------------------------------------------------
(* deduplicate_learnings                                                   *)

\* "## AUTOMATED LEARNINGS\n", group 1 of the section pattern
section_header == SectionMarker("AUTOMATED LEARNINGS") \o <<NL>>

\* "### Learning Entry - <timestamp>", the text of an entry header line
EntryHeaderLine(ts) == <<"#", "#", "#", " ", "Learning Entry", " ", "-", " ", ts>>

\* the split pattern \n### Learning Entry - \d{4}-\d{2}-\d{2} \d{2}:\d{2}:\d{2}\n
\* matches at index i
EntryHeaderAt(s, i) ==
    /\ i + Len(EntryHeaderLine("")) + 1 <= Len(s)
    /\ s[i] = NL
    /\ s[i + Len(EntryHeaderLine(""))] \in TimestampShaped
    /\ SubSeq(s, i + 1, i + Len(EntryHeaderLine("")))
         = EntryHeaderLine(s[i + Len(EntryHeaderLine(""))])
    /\ s[i + Len(EntryHeaderLine("")) + 1] = NL

\* re.split with the capturing header pattern: [preamble, header1, body1, ...];
\* matches are taken leftmost first and do not overlap
RECURSIVE ReSplitFrom(_, _)
ReSplitFrom(s, from) ==
    LET at == { i \in from..Len(s) : EntryHeaderAt(s, i) }
        i  == Least(at)
    IN  IF at = {} THEN <<SubSeq(s, from, Len(s))>>
        ELSE <<SubSeq(s, from, i - 1), SubSeq(s, i, i + Len(EntryHeaderLine("")) + 1)>>
             \o ReSplitFrom(s, i + Len(EntryHeaderLine("")) + 2)

entries_of(section_content) == ReSplitFrom(section_content, 1)

\* content_lines[:5]: the number of body lines that enter the identifier
SummaryLines == 5

FirstLines(lines, n) == SubSeq(lines, 1, IF Len(lines) < n THEN Len(lines) ELSE n)

\* the timestamp re.search finds in a header
HeaderTimestamp(header) ==
    IF \E k \in 1..Len(header) : header[k] \in TimestampShaped
    THEN <<header[CHOOSE k \in 1..Len(header) :
                    /\ header[k] \in TimestampShaped
                    /\ \A m \in 1..(k - 1) : header[m] \notin TimestampShaped]>>
    ELSE <<>>

\* the first five lines of the trimmed body
content_summary(entry_content) ==
    Join(FirstLines(Split(Strip(entry_content), NL), SummaryLines), <<NL>>)

\* f"{timestamp}|{content_summary}"
entry_identifier(header, entry_content) ==
    HeaderTimestamp(header) \o <<"|">> \o content_summary(entry_content)

entry_hash(header, entry_content) ==
    sha256_hexdigest(entry_identifier(header, entry_content))

\* the loop over the (header, content) pairs from index i (1-based, even):
\* the pieces kept and the number of duplicates
RECURSIVE DedupFrom(_, _, _)
DedupFrom(entries, i, seen_hashes) ==
    IF i + 1 > Len(entries) THEN [kept |-> <<>>, count |-> 0]
    ELSE LET h == entry_hash(entries[i], entries[i + 1])
         IN  IF h \notin seen_hashes
             THEN LET rest == DedupFrom(entries, i + 2, seen_hashes \cup {h})
                  IN  [kept  |-> <<entries[i], entries[i + 1]>> \o rest.kept,
                       count |-> rest.count]
             ELSE LET rest == DedupFrom(entries, i + 2, seen_hashes)
                  IN  [kept |-> rest.kept, count |-> rest.count + 1]

\* reconstructed_entries and duplicate_count
reconstructed(section_content) ==
    LET entries == entries_of(section_content)
        pairs   == DedupFrom(entries, 2, {})
    IN  [kept  |-> (IF Strip(entries[1]) # <<>> THEN <<entries[1]>> ELSE <<>>)
                   \o pairs.kept,
         count |-> pairs.count]

\* str.replace(old, new): every non-overlapping occurrence, left to right
RECURSIVE Replace(_, _, _)
Replace(s, old, new) ==
    LET i == Find(s, old, 1)
    IN  IF i = 0 THEN s
        ELSE SubSeq(s, 1, i - 1) \o new
             \o Replace(SubSeq(s, i + Len(old), Len(s)), old, new)

\* new_content with a fault: only the rebuilt section is written
new_content_section_only(content, section_content, new_section_content) ==
    section_header \o new_section_content

\* the content with the old section replaced by the new one
new_content(content, section_content, new_section_content) ==
    Replace(content, section_header \o section_content,
            section_header \o new_section_content)

\* response.lower()
Lower(response) == IF response = "Y" THEN "y" ELSE response

Responses == {"y", "Y", "N"}

MsgNoSection == <<"No AUTOMATED LEARNINGS section found.">>
MsgCancelled == <<"Operation cancelled by user.">>
MsgDeduplicated(n) ==
    <<"Successfully deduplicated. Removed ", ToString(n), " duplicate entries.">>

AutoConfirm == <<"--auto-confirm">>

\* the deduplicate command, with or without --auto-confirm; response is what
\* the user types, and input() is called only when duplicates were found and
\* auto_confirm is off
Deduplicate ==
    /\ Invocations < MaxRuns
    /\ LET r == ReadFile
           at == Find(r.content, section_header, 1)
           section_content == SubSeq(r.content, at + Len(section_header), Len(r.content))
           rec == reconstructed(section_content)
           text == new_content(r.content, section_content, Strip(Concat(rec.kept)))
           written == Written(text)
       IN  \E auto_confirm \in BOOLEAN :
           \E response \in (IF ~NoContent(r) /\ at # 0 /\ rec.count > 0 /\ ~auto_confirm
                            THEN Responses ELSE {""}) :
             LET asked == response # ""
                 args  == IF auto_confirm THEN AutoConfirm
                          ELSE IF asked THEN <<response>> ELSE <<>>
             IN  IF NoContent(r) THEN Record("deduplicate", args, FALSE, MsgNoContent, file)
                 ELSE IF at = 0 THEN Record("deduplicate", args, FALSE, MsgNoSection, file)
                 ELSE IF asked /\ Lower(response) # "y"
                 THEN Record("deduplicate", args, FALSE, MsgCancelled, file)
                 ELSE IF WriteOk /\ Encodable(text)
                 THEN Record("deduplicate", args, TRUE, MsgDeduplicated(rec.count), written)
                 ELSE Record("deduplicate", args, FALSE, MsgWriteFailed, written)
    /\ UNCHANGED <<access, jsonFile>>

----------------------------------------------------------------------------
(* deduplicate: documents and the specifications.                          *)

SixLines(last) == Join(<<<<"x">>, <<"x">>, <<"x">>, <<"x">>, <<"x">>, <<last>>>>, <<NL>>)

\* six lines, then a later top-level section that ends with a newline
FiveLinesThenNotes ==
    Join(<<<<"x">>, <<"x">>, <<"x">>, <<"x">>, <<"x">>,
           SectionMarker("NOTES"), <<"text">>, <<>>>>, <<NL>>)

\* bodies of generated learning entries
EntryBodies == { <<"x">>, SixLines("y"), FiveLinesThenNotes }

EntryTimestamps == {"2024-01-01 10:00:00", "2024-01-02 10:00:00"}

EntryTexts(bodies) ==
    { EntryHeaderLine(t) \o <<NL>> \o b : t \in EntryTimestamps, b \in bodies }

\* what precedes the first entry in the section: nothing, a blank line, a line of text
Preambles == { <<>>, << <<>> >>, << <<"p">> >> }

\* what precedes the section in the file
Prefixes == { <<>>, SectionMarker("DOMAIN CONTEXT") \o <<NL, "text", NL>> }

DedupDocs ==
    { pre \o section_header \o Join(pa \o es, <<NL>>) :
        pre \in Prefixes, pa \in Preambles,
        es \in SeqsUpTo(EntryTexts(EntryBodies), MaxEntries) }
    \cup { <<>>,
           SectionMarker("DOMAIN CONTEXT") \o <<NL, "text">>,
           SectionMarker("DOMAIN CONTEXT") \o <<CR, NL, "text", CR, NL>>
             \o section_header \o <<"p", CR, NL>> }

\* documents whose entry bodies are empty or read like an entry header
HeaderLikeDocs ==
    { section_header \o Join(<< <<"p">> >> \o es, <<NL>>) :
        es \in SeqsUpTo(EntryTexts({ <<>>, EntryHeaderLine("2024-01-02 10:00:00") }),
                        MaxEntries + 1) }

InitDedup == InitWith(DedupDocs)
NextDedup == Deduplicate
SpecDedup == InitDedup /\ [][NextDedup]_vars

InitDedupHeaders ==
    /\ file \in HeaderLikeDocs
    /\ access = "rw"
    /\ jsonFile = NoJson
    /\ log = <<>>

SpecDedupHeaders == InitDedupHeaders /\ [][NextDedup]_vars

----------------------------------------------------------------------------
(* Properties of deduplicate.                                               *)

IsEntryHeaderLine(line) == \E ts \in TimestampShaped : line = EntryHeaderLine(ts)

\* the lines after the first "## AUTOMATED LEARNINGS" line
LearningLines(content) ==
    LET lines == Split(content, NL)
        ms    == { k \in 1..Len(lines) : lines[k] = SectionMarker("AUTOMATED LEARNINGS") }
    IN  IF ms = {} THEN <<>>
        ELSE SubSeq(lines, (CHOOSE k \in ms : \A m \in ms : k <= m) + 1, Len(lines))

\* the learning entries of a document, each introduced by a header line and
\* running to the next header line or the end: <<timestamp, trimmed body>>
LearningEntries(content) ==
    LET ls == LearningLines(content)
        hs == { k \in 1..Len(ls) : IsEntryHeaderLine(ls[k]) }
        NextHeader(k) == IF \E m \in hs : m > k
                         THEN CHOOSE m \in hs : m > k /\ \A n \in hs : n > k => m <= n
                         ELSE Len(ls) + 1
        Nth[n \in 1..Cardinality(hs)] ==
            IF n = 1 THEN CHOOSE k \in hs : \A m \in hs : k <= m
            ELSE NextHeader(Nth[n - 1])
    IN  [n \in 1..Cardinality(hs) |->
            << ls[Nth[n]][Len(ls[Nth[n]])],
               Strip(Join(SubSeq(ls, Nth[n] + 1, NextHeader(Nth[n]) - 1), <<NL>>)) >>]

\* timestamp and the first five lines of the trimmed body
EntryKey(e) == <<e[1], FirstLines(Split(e[2], NL), 5)>>

\* the first occurrence of each key, in the original order
FirstOccurrences(es) ==
    LET keep == { k \in 1..Len(es) : \A m \in 1..(k - 1) : EntryKey(es[m]) # EntryKey(es[k]) }
        F[k \in 0..Len(es)] ==
            IF k = 0 THEN <<>>
            ELSE IF k \in keep THEN Append(F[k - 1], es[k]) ELSE F[k - 1]
    IN  F[Len(es)]

\* C6: a successful deduplicate with auto-confirm keeps exactly the first
\* entry of each key (timestamp, first five lines of the trimmed body), in the
\* original order, and reports the number of entries it dropped; every entry
\* introduced by a "### Learning Entry - <timestamp>" line counts, the one
\* right after the section marker included.
C6_KeepsFirstOfEachKey ==
    (Ran("deduplicate") /\ Last.args = AutoConfirm /\ Last.ok)
    => LET es == LearningEntries(ContentOf(Last.before))
       IN  /\ LearningEntries(Last.after) = FirstOccurrences(es)
           /\ Last.message
                = <<"Successfully deduplicated. Removed ",
                    ToString(Len(es) - Len(FirstOccurrences(es))),
                    " duplicate entries.">>

\* C7: when a deduplicate with auto-confirm succeeds and a second one
\* follows, the second reports zero removals and leaves the file
\* byte-identical to the first run's output.
C7_DeduplicateIdempotent ==
    \A i \in 1..(Len(log) - 1) :
        (/\ log[i].op = "deduplicate" /\ log[i].args = AutoConfirm /\ log[i].ok
         /\ log[i + 1].op = "deduplicate" /\ log[i + 1].args = AutoConfirm)
        => /\ log[i + 1].ok
           /\ log[i + 1].message
                = <<"Successfully deduplicated. Removed ", "0", " duplicate entries.">>
           /\ log[i + 1].after = log[i].after

\* the top-level sections other than AUTOMATED LEARNINGS, each the lines from
\* its "## " marker to the line before the next one
OtherSections(content) ==
    LET lines == Split(content, NL)
        ms    == { k \in 1..Len(lines) : StartsWith(lines[k], <<"#", "#", " ">>) }
        End(k) == IF \E m \in ms : m > k
                  THEN (CHOOSE m \in ms : m > k /\ \A n \in ms : n > k => m <= n) - 1
                  ELSE Len(lines)
        F[k \in 0..Len(lines)] ==
            IF k = 0 THEN <<>>
            ELSE IF k \in ms /\ lines[k] # SectionMarker("AUTOMATED LEARNINGS")
                 THEN Append(F[k - 1], SubSeq(lines, k, End(k)))
                 ELSE F[k - 1]
    IN  F[Len(lines)]

ThroughMarker(content) ==
    SubSeq(content, 1,
           Find(content, SectionMarker("AUTOMATED LEARNINGS") \o <<NL>>, 1)
             + Len(SectionMarker("AUTOMATED LEARNINGS")))

----------------------------------------------------------------------------
(* add_checkpoint                                                          *)

\* datetime.now().strftime("%Y-%m-%dT%H:%M:%SZ"), one symbol
NowTimestamps == {"2024-01-02T10:00:00Z"}
IsoTimestamps == {"2024-01-01T10:00:00Z", "2024-01-02T10:00:00Z"}

\* --description: a word, a text that ends in a blank, and a text with a
\* byte that is not UTF-8
Descriptions == {<<"desc">>, <<"x", " ">>, <<"x", Surrogate>>}

\* f"- **{timestamp}**: {description}\n"
checkpoint_entry(timestamp, description) ==
    <<"-", " ", "*", "*", timestamp, "*", "*", ":", " ">> \o description \o <<NL>>

EvolutionMarker == SectionMarker("EVOLUTION TRACKING")
CheckpointHistory == <<"#", "#", "#", " ", "Checkpoint History">>
TopLevel == <<"#", "#", " ">>
\* "- ****:"
EmptyBold == <<"-", " ", "*", "*", "*", "*", ":">>

\* the first loop from the 0-based line index i with the flags so far: the
\* lines after it, and checkpoint_section_found
RECURSIVE ScanFrom(_, _, _, _, _, _)
ScanFrom(lines, i, in_evolution_tracking, in_checkpoint_section, found, entry) ==
    IF i >= Len(lines) THEN [lines |-> lines, found |-> found]
    ELSE LET line == lines[i + 1]
         IN  IF Contains(line, EvolutionMarker)
             THEN ScanFrom(lines, i + 1, TRUE, in_checkpoint_section, found, entry)
             ELSE IF in_evolution_tracking /\ Contains(line, CheckpointHistory)
             THEN ScanFrom(lines, i + 1, in_evolution_tracking, TRUE, TRUE, entry)
             ELSE IF /\ in_evolution_tracking /\ in_checkpoint_section
                     /\ StartsWith(line, TopLevel)
                     /\ ~Contains(line, CheckpointHistory)
             THEN [lines |-> InsertAt(lines, i, entry), found |-> found]
             ELSE IF /\ in_evolution_tracking /\ in_checkpoint_section
                     /\ Contains(line, EmptyBold)
             THEN [lines |-> InsertAt(lines, i + 1, entry), found |-> found]
             ELSE ScanFrom(lines, i + 1, in_evolution_tracking,
                           in_checkpoint_section, found, entry)

\* the while loop of the second pass from j: the index it stops at, or -1 when
\* it reads lines[len(lines)] and raises IndexError
RECURSIVE SectionEndScan(_, _)
SectionEndScan(lines, j) ==
    IF j < Len(lines) /\ ~StartsWith(lines[j + 1], TopLevel)
    THEN SectionEndScan(lines, j + 1)
    ELSE IF j >= Len(lines) THEN -1
    ELSE IF Contains(lines[j + 1], EvolutionMarker) THEN SectionEndScan(lines, j + 1)
    ELSE j

\* the second pass: no Checkpoint History was found, create one at the end of
\* the first section whose marker line holds "## EVOLUTION TRACKING"
CreateHistory(lines, entry) ==
    LET at == { k \in 1..Len(lines) : Contains(lines[k], EvolutionMarker) }
        j  == SectionEndScan(lines, Least(at))
    IN  IF at = {} THEN [raised |-> FALSE, lines |-> lines]
        ELSE IF j = -1 THEN [raised |-> TRUE, lines |-> lines]
        ELSE [raised |-> FALSE,
              lines  |-> InsertAt(InsertAt(lines, j, <<NL>> \o CheckpointHistory),
                                  j + 1, RStrip(entry))]

\* both passes
with_checkpoint(lines, entry) ==
    LET first == ScanFrom(lines, 0, FALSE, FALSE, FALSE, entry)
    IN  IF first.found THEN [raised |-> FALSE, lines |-> first.lines]
        ELSE CreateHistory(first.lines, entry)

MsgIndexError == <<"IndexError: list index out of range">>
MsgCheckpointAdded(description) == <<"Checkpoint added: ">> \o description

\* the add-checkpoint command at the time timestamp; an IndexError ends the
\* process before anything is written
AddCheckpoint ==
    /\ Invocations < MaxRuns
    /\ \E timestamp \in NowTimestamps, description \in Descriptions :
         LET r == ReadFile
             res == with_checkpoint(Split(r.content, NL),
                                    checkpoint_entry(timestamp, description))
         IN  IF NoContent(r)
             THEN Record("add-checkpoint", description, FALSE, MsgNoContent, file)
             ELSE IF res.raised
             THEN Record("add-checkpoint", description, FALSE, MsgIndexError, file)
             ELSE IF WriteOk /\ Encodable(Join(res.lines, <<NL>>))
             THEN Record("add-checkpoint", description, TRUE,
                         MsgCheckpointAdded(description),
                         Written(Join(res.lines, <<NL>>)))
             ELSE Record("add-checkpoint", description, FALSE, MsgWriteFailed,
                         Written(Join(res.lines, <<NL>>)))
    /\ UNCHANGED <<access, jsonFile>>

----------------------------------------------------------------------------
(* add-checkpoint: documents and the specification.                        *)

OldCheckpointLine ==
    <<"-", " ", "*", "*", "2024-01-01T10:00:00Z", "*", "*", ":", " ", "old">>

\* a bullet with an empty bold field, "- ****: x"
EmptyBoldLine == EmptyBold \o <<" ", "x">>

CheckpointDocLines ==
    { EvolutionMarker, CheckpointHistory, OldCheckpointLine, EmptyBoldLine,
      SectionMarker("AUTOMATED LEARNINGS"), <<"text">>, <<>> }

CheckpointDocs == { Doc(ls) : ls \in SeqsUpTo(CheckpointDocLines, MaxCheckpointDocLines) }

InitCheckpoint == InitWith(CheckpointDocs)
NextCheckpoint == AddCheckpoint
SpecCheckpoint == InitCheckpoint /\ [][NextCheckpoint]_vars

----------------------------------------------------------------------------
(* Properties of add-checkpoint.                                            *)

\* a line of the shape "- **<ISO-8601 timestamp>**: <description>"
IsCheckpointLine(line) ==
    /\ Len(line) >= 9
    /\ SubSeq(line, 1, 4) = <<"-", " ", "*", "*">>
    /\ line[5] \in IsoTimestamps
    /\ SubSeq(line, 6, 9) = <<"*", "*", ":", " ">>

CheckpointCount(content) == Len(SelectSeq(Split(content, NL), IsCheckpointLine))

\* a occurs in b as a subsequence: the elements of a, in order
RECURSIVE IsSubsequence(_, _)
IsSubsequence(a, b) ==
    IF Len(a) = 0 THEN TRUE
    ELSE IF Len(b) = 0 THEN FALSE
    ELSE IF a[1] = b[1] THEN IsSubsequence(Tail(a), Tail(b))
    ELSE IsSubsequence(a, Tail(b))

\* C9: a successful add-checkpoint writes a file with exactly one checkpoint
\* line more than before, in which every line of the original document is
\* still present, unchanged and in the same relative order.  Stated for the
\* documents that have an EVOLUTION TRACKING marker line.
C9_AddsExactlyOneCheckpoint ==
    (/\ Ran("add-checkpoint") /\ Last.ok
     /\ \E k \in 1..Len(LinesOf(Last.before)) : LinesOf(Last.before)[k] = EvolutionMarker)
    => /\ CheckpointCount(Last.after) = CheckpointCount(ContentOf(Last.before)) + 1
       /\ IsSubsequence(LinesOf(Last.before), Split(Last.after, NL))

----------------------------------------------------------------------------
(* to_json                                                                 *)

\* re.match(r"# AI LEARNING FILE: (.+)"): group 1, <<>> when there is no match
header_match(content) ==
    LET first == Split(content, NL)[1]
    IN  IF StartsWith(first, HeaderPrefix \o <<" ">>) /\ Len(first) > Len(HeaderPrefix) + 1
        THEN SubSeq(first, Len(HeaderPrefix) + 2, Len(first))
        ELSE <<>>

BulletBold == <<"-", " ", "*", "*">>

\* re.match(r'- \*\*([^:]+)\*\*: (.*)', line): the key holds no ":", so the
\* "**: " that ends it is at the first ":" of the line
KeyValueMatch(line) ==
    LET colons == { k \in 1..Len(line) : line[k] = ":" }
        c      == Least(colons)
    IN  IF /\ StartsWith(line, BulletBold)
           /\ colons # {}
           /\ c >= Len(BulletBold) + 4
           /\ SubSeq(line, c - 2, c - 1) = <<"*", "*">>
           /\ c < Len(line) /\ line[c + 1] = " "
        THEN [matched |-> TRUE,
              key     |-> SubSeq(line, Len(BulletBold) + 1, c - 3),
              value   |-> SubSeq(line, c + 2, Len(line))]
        ELSE [matched |-> FALSE, key |-> <<>>, value |-> <<>>]

\* dict[key] = value on a dict kept as a sequence of <<key, value>> in
\* insertion order: a key already there keeps its place and gets the value
DictSet(d, key, value) ==
    IF \E k \in 1..Len(d) : d[k][1] = key
    THEN [k \in 1..Len(d) |-> IF d[k][1] = key THEN <<key, value>> ELSE d[k]]
    ELSE Append(d, <<key, value>>)

\* the loop over metadata_content.split('\n')
RECURSIVE MetadataOf(_, _)
MetadataOf(lines, d) ==
    IF Len(lines) = 0 THEN d
    ELSE MetadataOf(Tail(lines),
                    IF StartsWith(lines[1], BulletBold) /\ KeyValueMatch(lines[1]).matched
                    THEN DictSet(d, KeyValueMatch(lines[1]).key, KeyValueMatch(lines[1]).value)
                    ELSE d)

\* json_data["metadata"]
metadata_of(content) ==
    IF metadata_match(content).matched
    THEN MetadataOf(Split(metadata_match(content).group, NL), <<>>)
    ELSE <<>>

\* the pattern (## .+) matches at index i: "## " and at least one more symbol
\* of the same line
SectionHeaderAt(s, i) ==
    /\ OccursAt(s, TopLevel, i)
    /\ i + Len(TopLevel) <= Len(s)
    /\ s[i + Len(TopLevel)] # NL

\* the end of the line that holds index i
LineEnd(s, i) ==
    LET nls == { k \in i..Len(s) : s[k] = NL }
    IN  IF nls = {} THEN Len(s) ELSE Least(nls) - 1

\* re.split(r"(## .+)", content): [before, header1, content1, ...]
RECURSIVE SectionSplitFrom(_, _)
SectionSplitFrom(s, from) ==
    LET at == { i \in from..Len(s) : SectionHeaderAt(s, i) }
        i  == Least(at)
    IN  IF at = {} THEN <<SubSeq(s, from, Len(s))>>
        ELSE <<SubSeq(s, from, i - 1), SubSeq(s, i, LineEnd(s, i))>>
             \o SectionSplitFrom(s, LineEnd(s, i) + 1)

\* the loop over the (header, content) pairs from index i
RECURSIVE SectionsFrom(_, _, _)
SectionsFrom(sections, i, d) ==
    IF i + 1 > Len(sections) THEN d
    ELSE SectionsFrom(sections, i + 2,
                      DictSet(d, SubSeq(Strip(sections[i]), 4, Len(Strip(sections[i]))),
                              Strip(sections[i + 1])))

\* json_data["sections"]
sections_of(content) == SectionsFrom(SectionSplitFrom(content, 1), 2, <<>>)

\* json_data without file_name; json.dump writes it as it is
json_data(content) ==
    [exists     |-> TRUE,
     file_title |-> header_match(content),
     metadata   |-> metadata_of(content),
     sections   |-> sections_of(content)]

MsgConverted == <<"Converted to JSON: ", "file.json">>
MsgJsonError == <<"Error writing JSON file: ">>

\* the to-json command; opening the .json file for writing may fail
ToJson ==
    /\ Invocations < MaxRuns
    /\ LET r == ReadFile
       IN  IF NoContent(r)
           THEN /\ Record("to-json", <<>>, FALSE, MsgNoContent, file)
                /\ UNCHANGED jsonFile
           ELSE \E json_writable \in BOOLEAN :
                  IF json_writable
                  THEN /\ Record("to-json", <<>>, TRUE, MsgConverted, file)
                       /\ jsonFile' = json_data(r.content)
                  ELSE /\ Record("to-json", <<>>, FALSE, MsgJsonError, file)
                       /\ UNCHANGED jsonFile
    /\ UNCHANGED access

----------------------------------------------------------------------------
(* to-json: documents and the specification.                               *)

KeyValueLine == BulletBold \o <<"Key", "*", "*", ":", " ", "Value">>
NestedLine == <<"-", " ", "name", ":", " ", "x">>
NoSpaceLine == BulletBold \o <<"Key", "*", "*", ":", "x">>

JsonDocLines ==
    { HeaderLine, SectionMarker("FILE METADATA"), KeyValueLine, NestedLine,
      NoSpaceLine, SectionMarker("DOMAIN CONTEXT"), CheckpointHistory, <<"\\", "Z">> }

JsonDocs == { Doc(ls) : ls \in SeqsUpTo(JsonDocLines, MaxJsonDocLines) }

InitJson == InitWith(JsonDocs)
NextJson == ToJson
SpecJson == InitJson /\ [][NextJson]_vars

----------------------------------------------------------------------------
(* Properties of to-json.                                                   *)

\* the lines of the FILE METADATA section body: after the first line
\* "## FILE METADATA", up to the next line that starts with "## "
MetadataBodyLines(content) ==
    LET lines == Split(content, NL)
        ms    == { k \in 1..Len(lines) : lines[k] = SectionMarker("FILE METADATA") }
        m     == Least(ms)
        nx    == { k \in (m + 1)..Len(lines) : StartsWith(lines[k], <<"#", "#", " ">>) }
    IN  IF ms = {} THEN <<>>
        ELSE SubSeq(lines, m + 1, IF nx = {} THEN Len(lines) ELSE Least(nx) - 1)

\* line has the exact shape "- **Key**: Value" with this key and value
HasShape(line, key, value) ==
    /\ Len(key) > 0
    /\ \A k \in 1..Len(key) : key[k] # ":"
    /\ line = <<"-", " ", "*", "*">> \o key \o <<"*", "*", ":", " ">> \o value

\* the keys and values a line of the exact shape can give
ShapedPairs(line) ==
    { <<SubSeq(line, 5, e), SubSeq(line, e + 5, Len(line))>> :
        e \in { n \in 5..(Len(line) - 4) :
                  HasShape(line, SubSeq(line, 5, n), SubSeq(line, n + 5, Len(line))) } }

\* C10: after a successful to-json the metadata mapping has an entry
\* Key -> Value for every line "- **Key**: Value" of the FILE METADATA section
\* body, and no entry that does not come from such a line of that body.
C10_MetadataIsTheShapedLines ==
    (Ran("to-json") /\ Last.ok)
    => LET body == MetadataBodyLines(ContentOf(Last.before))
           all  == UNION { ShapedPairs(body[k]) : k \in 1..Len(body) }
       IN  /\ \A kv \in all : \E n \in 1..Len(jsonFile.metadata) : jsonFile.metadata[n][1] = kv[1]
           /\ \A n \in 1..Len(jsonFile.metadata) : jsonFile.metadata[n] \in all

\* the 1-based indices of the lines that start with "## "
TopLevelLines(lines) == { k \in 1..Len(lines) : StartsWith(lines[k], TopLevel) }

\* the name on the top-level marker line k
SectionName(lines, k) == SubSeq(lines[k], Len(TopLevel) + 1, Len(lines[k]))

\* the trimmed raw body of the section whose marker is line k: the text up
\* to the next top-level marker line or the end of the file
SectionBody(lines, k) ==
    LET later == { m \in TopLevelLines(lines) : m > k }
        last  == IF later = {} THEN Len(lines) ELSE Least(later) - 1
    IN  Strip(Join(SubSeq(lines, k + 1, last), <<NL>>))

\* C11: after a successful to-json the keys of the sections mapping are
\* exactly the names of the top-level sections (lines starting with "## "),
\* each value is the trimmed raw body of its section, "### " subsections
\* included, and of two sections with one name the later body is kept.
C11_SectionsAreTopLevelSections ==
    (Ran("to-json") /\ Last.ok)
    => LET lines == LinesOf(Last.before)
           tops  == TopLevelLines(lines)
       IN  /\ { jsonFile.sections[n][1] : n \in 1..Len(jsonFile.sections) }
                = { SectionName(lines, k) : k \in tops }
           /\ \A k \in tops :
                (\A m \in tops : m > k => SectionName(lines, m) # SectionName(lines, k))
                => \E n \in 1..Len(jsonFile.sections) :
                      jsonFile.sections[n] = <<SectionName(lines, k), SectionBody(lines, k)>>

----------------------------------------------------------------------------
(* Properties of failing invocations.                                      *)

\* C12: an invocation that ends in failure leaves the bytes of the source
\* file as they were before it.
C12_FailureLeavesFileUntouched ==
    \A i \in 1..Len(log) :
        (log[i].op # "edit" /\ ~log[i].ok) => log[i].after = log[i].before

----------------------------------------------------------------------------
(* validate: documents that reach every step, and their specification.     *)

\* the lines of a CREATED section: none, a valid time, a time of the right
\* shape that is no time, a line of another shape
CreatedChoices ==
    { <<>>,
      <<CreatedMarker, <<"2024-01-01 10:00:00">>>>,
      <<CreatedMarker, <<"2024-13-45 99:00:00">>>>,
      <<CreatedMarker, <<"text">>>> }

\* "- **Field**: 1"
FieldLine(field) == FieldLabel(field) \o <<" ", "1">>

\* the field lines of a FILE METADATA body, for a set of fields, in order
FieldLines(fields) ==
    SelectSeq([k \in 1..Len(required_metadata_fields) |->
                  IF required_metadata_fields[k] \in fields
                  THEN FieldLine(required_metadata_fields[k]) ELSE <<>>],
              LAMBDA l : l # <<>>)

\* a FILE METADATA section: its marker, then maybe a line "\Z" before or
\* after the field lines, then maybe an integrity-hash line
MetadataSections ==
    { <<>> } \cup
    { <<SectionMarker("FILE METADATA")>> \o before \o FieldLines(fields) \o after \o hash :
        fields \in SUBSET { required_metadata_fields[k] : k \in 1..Len(required_metadata_fields) },
        before \in { <<>>, <<<<"\\", "Z">>>> },
        after \in { <<>>, <<<<"\\", "Z">>>> },
        hash \in { <<>>, <<OldHashLine>> } }

\* the markers of the other six mandatory sections, without those of dropped
OtherMarkers(dropped) ==
    SelectSeq([k \in 1..(Len(mandatory_sections) - 1) |->
                  IF mandatory_sections[k + 1] \in dropped
                  THEN <<>> ELSE SectionMarker(mandatory_sections[k + 1])],
              LAMBDA l : l # <<>>)

DroppedChoices == SUBSET {"DOMAIN CONTEXT", "AUTOMATED LEARNINGS"}

ValidateStepBaseDocs ==
    { Doc(<<first>> \o created \o meta \o OtherMarkers(dropped)) :
        first \in { HeaderLine, <<"title">> },
        created \in CreatedChoices,
        meta \in MetadataSections,
        dropped \in DroppedChoices }

\* the base documents, and those with a hash line after generate-hash
\* refreshed it
ValidateStepDocs ==
    ValidateStepBaseDocs
    \cup { updated_content(d) : d \in { b \in ValidateStepBaseDocs : Contains(b, HashPrefix) } }

InitValidateSteps == InitWith(ValidateStepDocs)
NextValidateSteps == Validate
SpecValidateSteps == InitValidateSteps /\ [][NextValidateSteps]_vars

----------------------------------------------------------------------------
(* Properties of validate, all steps.                                      *)

\* some integrity-hash line of the content does not carry the SHA-256 of the
\* content with that line removed
HasBadHashLine(content) ==
    LET lines == Split(content, NL)
    IN  \E k \in 1..Len(lines) :
          /\ IsHashLine(lines[k])
          /\ lines[k] # HashPrefix \o sha256_hexdigest(Join(DropLine(lines, k), <<NL>>))

\* C13: validate fails on every document that holds an integrity-hash line
\* whose value is not the SHA-256 of the document without that line.
C13_ValidateRejectsBadHash ==
    (/\ Ran("validate")
     /\ access # "none"
     /\ HasBadHashLine(ContentOf(Last.before)))
    => ~Last.ok

\* the five checks of validate_syntax, each as the code tests it
SectionsStepFails(content) == missing_sections(content) # <<>>
HeaderStepFails(content) == ~StartsWith(content, HeaderPrefix)
CreatedStepFails(content) == ~Contains(content, CreatedMarker)
TimestampStepFails(content) ==
    created_match(content) # <<>> /\ ~ValidDateTime(created_match(content)[1])
MetadataStepFails(content) ==
    /\ metadata_match(content).matched
    /\ missing_fields(metadata_match(content).group) # <<>>

\* the required fields whose label is not in the FILE METADATA section body
FieldsNotInBody(content) ==
    SelectSeq(required_metadata_fields,
              LAMBDA f : ~Contains(Join(MetadataBodyLines(content), <<NL>>), FieldLabel(f)))

\* C14: on a document that passes the section, header, CREATED-marker and
\* CREATED-timestamp checks, validate fails and lists exactly the required
\* labels that the FILE METADATA section body lacks, and succeeds when the
\* body has all three.
C14_MetadataStepReportsMissingLabels ==
    (/\ Ran("validate")
     /\ access # "none"
     /\ ContentOf(Last.before) # <<>>
     /\ ~SectionsStepFails(ContentOf(Last.before))
     /\ ~HeaderStepFails(ContentOf(Last.before))
     /\ ~CreatedStepFails(ContentOf(Last.before))
     /\ ~TimestampStepFails(ContentOf(Last.before)))
    => IF FieldsNotInBody(ContentOf(Last.before)) # <<>>
       THEN /\ ~Last.ok
            /\ Last.message = <<"Missing required metadata fields: ">>
                              \o CommaJoin(FieldsNotInBody(ContentOf(Last.before)))
       ELSE Last.ok

\* the first of the five checks that fails on the content, 6 when none does
FirstFailingStep(content) ==
    IF SectionsStepFails(content) THEN 1
    ELSE IF HeaderStepFails(content) THEN 2
    ELSE IF CreatedStepFails(content) THEN 3
    ELSE IF TimestampStepFails(content) THEN 4
    ELSE IF MetadataStepFails(content) THEN 5
    ELSE 6

\* the check a message of validate_syntax describes, 6 for the success message
StepOfMessage(message) ==
    CASE message[1] = "Missing mandatory sections: " -> 1
      [] message[1] = "File must start with '# AI LEARNING FILE:'" -> 2
      [] message[1] = "Missing 'CREATED' section" -> 3
      [] message[1] = "Invalid timestamp format in CREATED section" -> 4
      [] message[1] = "Missing required metadata fields: " -> 5
      [] message[1] = "Syntax validation passed." -> 6
      [] OTHER -> 0

\* C15: on a document with content, the message of validate describes the
\* first check, in the order sections, header, CREATED marker, CREATED
\* timestamp, metadata fields, that fails; validate succeeds only when none
\* fails.
C15_MessageIsFirstFailingStep ==
    (/\ Ran("validate")
     /\ access # "none"
     /\ ContentOf(Last.before) # <<>>)
    => /\ StepOfMessage(Last.message) = FirstFailingStep(ContentOf(Last.before))
       /\ Last.ok <=> FirstFailingStep(ContentOf(Last.before)) = 6

\* validate ran on a document that lacks a mandatory section and the header,
\* and reported only the missing section
C15_Witness ==
    /\ Ran("validate")
    /\ access # "none"
    /\ SectionsStepFails(ContentOf(Last.before))
    /\ HeaderStepFails(ContentOf(Last.before))
    /\ ~Last.ok
    /\ StepOfMessage(Last.message) = 1

----------------------------------------------------------------------------
(* Properties of add-checkpoint: where the line goes.                      *)

\* the 1-based index of the first line that is the EVOLUTION TRACKING
\* marker, 0 when there is none
EvolutionLine(lines) ==
    LET at == { k \in 1..Len(lines) : lines[k] = EvolutionMarker }
    IN  IF at = {} THEN 0 ELSE Least(at)

\* the 1-based index of the last line of the EVOLUTION TRACKING section: the
\* line before the first later line that starts with "## " and is not the
\* EVOLUTION TRACKING marker, the last line when there is none
EvolutionLastLine(lines) ==
    LET later == { k \in (EvolutionLine(lines) + 1)..Len(lines) :
                     StartsWith(lines[k], TopLevel) /\ lines[k] # EvolutionMarker }
    IN  IF later = {} THEN Len(lines) ELSE Least(later) - 1

\* a line "- **<now>**: ..." written by this invocation
IsNewCheckpointLine(line) ==
    \E t \in NowTimestamps : StartsWith(line, <<"-", " ", "*", "*", t, "*", "*", ":", " ">>)

\* C16: on a writable document with an EVOLUTION TRACKING marker line and no
\* "### Checkpoint History" anywhere, add-checkpoint succeeds and the written
\* file has, at the end of the EVOLUTION TRACKING section (before the next
\* other top-level marker, or at the end of the file), a line
\* "### Checkpoint History" directly followed by the new checkpoint line.
C16_CreatesHistoryAtSectionEnd ==
    (/\ Ran("add-checkpoint")
     /\ access = "rw"
     /\ Encodable(Last.args)
     /\ EvolutionLine(LinesOf(Last.before)) # 0
     /\ ~Contains(ContentOf(Last.before), CheckpointHistory))
    => /\ Last.ok
       /\ LET old == LinesOf(Last.before)
              new == Split(Last.after, NL)
              e   == EvolutionLastLine(old)
          IN  \E h \in (e + 1)..(Len(new) - 1) :
                /\ new[h] = CheckpointHistory
                /\ IsNewCheckpointLine(new[h + 1])
                /\ SubSeq(new, 1, e) = SubSeq(old, 1, e)
                /\ SubSeq(new, h + 2, Len(new)) = SubSeq(old, e + 1, Len(old))

\* the 1-based indices of the lines this invocation's checkpoint is on
NewCheckpointLines(lines) == { k \in 1..Len(lines) : IsNewCheckpointLine(lines[k]) }

\* C17: when add-checkpoint succeeds and changes the file, the written file
\* has exactly one checkpoint line more, and it lies inside the EVOLUTION
\* TRACKING section, directly before the first top-level marker that follows
\* the EVOLUTION TRACKING marker (a blank line may follow it), everything
\* from that marker on being unchanged.
C17_InsertsInsideEvolutionTracking ==
    (/\ Ran("add-checkpoint") /\ Last.ok
     /\ Last.after # ContentOf(Last.before))
    => LET old  == LinesOf(Last.before)
           new  == Split(Last.after, NL)
           e    == EvolutionLastLine(old)
           rest == SubSeq(old, e + 1, Len(old))
       IN  /\ EvolutionLine(old) # 0
           /\ Cardinality(NewCheckpointLines(new)) = Cardinality(NewCheckpointLines(old)) + 1
           /\ \E p \in NewCheckpointLines(new) :
                /\ p > EvolutionLine(old)
                /\ SubSeq(new, p + 1, Len(new)) \in { rest, <<<<>>>> \o rest }

====
